---------------------------- MODULE Spec2Model ----------------------------
(***************************************************************************)
(* A model of smale/smale.py: Smale's alpha theory in front of             *)
(* scipy.optimize.newton.                                                  *)
(*                                                                         *)
(* Numbers.  The program computes in floating point; the model computes    *)
(* exactly.  A number is a record [k, n, d, r]:                            *)
(*    k = "fin"  the real  sign(n) * (|n| / d) ^ (1 / r),  d > 0, r >= 1   *)
(*    k = "inf"  plus or minus infinity, the sign in n                     *)
(*    k = "nan"  not a number                                              *)
(* so that the k-th roots taken by smale_gamma are kept exact.  Rounding   *)
(* and overflow of the 64 bit floats are not modelled.                     *)
(*                                                                         *)
(* Scalars.  What a callable returns is a number with the type that        *)
(* decides how "/" treats a zero divisor: "py" (int, float, complex of     *)
(* Python: ZeroDivisionError) or "np" (a numpy scalar, as poly1d returns:  *)
(* inf or nan).                                                            *)
(*                                                                         *)
(* Unit.  The values of f are measured in units of the threshold           *)
(* 0.15767078078675478 of smale_newton, so that beta and alpha are in      *)
(* that unit too and the threshold itself is the number one.  The values   *)
(* of the derivatives are plain numbers.                                   *)
(***************************************************************************)
EXTENDS Integers, Sequences, FiniteSets

(* ------------------------------ bounds -------------------------------- *)

\* the longest derivative list df a caller holds
MaxDf == 3
\* the number of calls in one session
MaxCalls == 2

(* --------------------------- exact numbers ---------------------------- *)

IntAbs(i) == IF i < 0 THEN -i ELSE i

Sign(i) == IF i < 0 THEN -1 ELSE IF i = 0 THEN 0 ELSE 1

RECURSIVE GCD(_, _)
GCD(a, b) == IF b = 0 THEN a ELSE GCD(b, a % b)

RECURSIVE IntPow(_, _)
IntPow(b, e) == IF e = 0 THEN 1 ELSE b * IntPow(b, e - 1)

\* the rational n / d in lowest terms, d # 0
Rat(n, d) ==
    LET g == GCD(IntAbs(n), IntAbs(d))
    IN  [k |-> "fin", n |-> Sign(d) * (n \div g), d |-> IntAbs(d) \div g, r |-> 1]

Inf(s) == [k |-> "inf", n |-> s, d |-> 1, r |-> 1]

NaN == [k |-> "nan", n |-> 0, d |-> 1, r |-> 1]

IsZero(a) == a.k = "fin" /\ a.n = 0

\* IEEE 754 division of two rationals (r = 1), infinities and nan included
FloatDiv(a, b) ==
    IF a.k = "nan" \/ b.k = "nan" THEN NaN
    ELSE IF a.k = "inf"
         THEN IF b.k = "inf" THEN NaN
              ELSE Inf(a.n * (IF b.n < 0 THEN -1 ELSE 1))
    ELSE IF b.k = "inf" THEN Rat(0, 1)
    ELSE IF b.n = 0
         THEN IF a.n = 0 THEN NaN ELSE Inf(Sign(a.n))
    ELSE Rat(a.n * b.d, a.d * b.n)

\* (|n| / d) ^ (1 / r) with sign s, written without a root when it is 0 or 1
Rooted(s, q, r) ==
    IF q.n = 0 \/ q.n = q.d THEN Rat(s * q.n, q.d)
    ELSE [k |-> "fin", n |-> s * q.n, d |-> q.d, r |-> r]

\* x * y for finite x without a root and y with the root y.r: x is raised to
\* the power y.r under the root
RootMul(x, y) ==
    Rooted(Sign(x.n) * Sign(y.n),
           Rat(IntPow(IntAbs(x.n), y.r) * IntAbs(y.n), IntPow(x.d, y.r) * y.d),
           y.r)

\* IEEE 754 product; at most one factor carries a root
FloatMul(a, b) ==
    IF a.k = "nan" \/ b.k = "nan" THEN NaN
    ELSE IF a.k = "inf" \/ b.k = "inf"
         THEN IF IsZero(a) \/ IsZero(b) THEN NaN ELSE Inf(Sign(a.n) * Sign(b.n))
    ELSE IF a.r = 1 /\ b.r = 1 THEN Rat(a.n * b.n, a.d * b.d)
    ELSE IF a.r = 1 THEN RootMul(a, b)
    ELSE RootMul(b, a)

\* a ** (1./e) for a >= 0 without a root
FloatRoot(a, e) ==
    IF a.k # "fin" \/ e = 1 \/ a.n = 0 \/ a.n = a.d THEN a
    ELSE [k |-> "fin", n |-> a.n, d |-> a.d, r |-> e]

\* a <= b for finite a, b >= 0
FinLe(a, b) ==
    IF a.r = b.r THEN a.n * b.d <= b.n * a.d
    ELSE IntPow(a.n, b.r) * IntPow(b.d, a.r) <= IntPow(b.n, a.r) * IntPow(a.d, b.r)

\* a > b as float comparison does it, for a, b >= 0: false when either is nan
FloatGt(a, b) ==
    IF a.k = "nan" \/ b.k = "nan" THEN FALSE
    ELSE IF a.k = "inf" THEN b.k # "inf"
    ELSE IF b.k = "inf" THEN FALSE
    ELSE ~ FinLe(a, b)

\* the same value (nan the same as nan, which == of the floats denies)
SameNumber(a, b) ==
    IF a.k # "fin" \/ b.k # "fin" THEN a.k = b.k /\ a.n = b.n
    ELSE IF a.n < 0 \/ b.n < 0
         THEN a.n < 0 /\ b.n < 0
              /\ FinLe([a EXCEPT !.n = -a.n], [b EXCEPT !.n = -b.n])
              /\ FinLe([b EXCEPT !.n = -b.n], [a EXCEPT !.n = -a.n])
    ELSE FinLe(a, b) /\ FinLe(b, a)

(* ----------------------- scalars and callables ------------------------ *)

\* the scalar types a callable may return
Types == {"py", "np"}

\* A callable: f (fn = "f") or the entry df[i] (fn = "df", i the Python
\* index), with the scalar (ty, v) it returns at the point (x0, *args)
Callable(fn, i, ty, v) == [fn |-> fn, i |-> i, ty |-> ty, v |-> v]

\* the default fprime of newton when df is empty
None == [fn |-> "None", i |-> 0, ty |-> "None", v |-> NaN]

\* the record of one invocation c(*argv)
Called(c, argv) == [fn |-> c.fn, i |-> c.i, argv |-> argv]

\* a / b of Python raises ZeroDivisionError: both operands are Python
\* numbers and b is zero (a numpy operand makes the division numpy's)
DivRaises(a, b) == a.ty = "py" /\ b.ty = "py" /\ IsZero(b.v)

numpy_abs(a) == IF a.k = "nan" THEN a ELSE [a EXCEPT !.n = IntAbs(a.n)]

\* how a function ends: it returns v or raises exc; evals are the callables
\* it invoked, in order
Return(v, evals) == [st |-> "return", v |-> v, exc |-> "none", evals |-> evals]

Raise(exc, evals) == [st |-> "raise", v |-> NaN, exc |-> exc, evals |-> evals]

(* ----------------------------- smale_beta ------------------------------ *)

\* beta_args with the extra arguments dropped
beta_args_dropped(x0, args) == <<x0>>

\* _args = (x0,) + args
beta_args(x0, args) == <<x0>> \o args

\* numpy.abs(f(*_args)/df[0](*_args))
smale_beta(f, x0, df, args) ==
    IF Len(df) = 0
    THEN Raise("IndexError", <<Called(f, beta_args(x0, args))>>)
    ELSE IF DivRaises(f, df[1])
    THEN Raise("ZeroDivisionError",
               <<Called(f, beta_args(x0, args)), Called(df[1], beta_args(x0, args))>>)
    ELSE Return(numpy_abs(FloatDiv(f.v, df[1].v)),
                <<Called(f, beta_args(x0, args)), Called(df[1], beta_args(x0, args))>>)

(* ----------------------------- smale_gamma ----------------------------- *)

\* _args = (x0,) + args
gamma_args(x0, args) == <<x0>> \o args

\* the float 1. of line 172
One == [ty |-> "py", v |-> Rat(1, 1)]

\* gamma_scale with the step dividing by k instead of k + 1
RECURSIVE gamma_scale_off_by_one(_, _)
gamma_scale_off_by_one(scale0, k) ==
    IF k = 0 THEN scale0
    ELSE FloatDiv(gamma_scale_off_by_one(scale0, k - 1), Rat(k, 1))

\* scale after the k-th pass of the loop: scale /= 1.0*(k+1)
RECURSIVE gamma_scale(_, _)
gamma_scale(scale0, k) ==
    IF k = 0 THEN scale0
    ELSE FloatDiv(gamma_scale(scale0, k - 1), Rat(k + 1, 1))

\* numpy.abs(scale * df[k](*_args))**(1./k)
gamma_term(scale, dfk, k) == FloatRoot(numpy_abs(FloatMul(scale, dfk)), k)

\* the array gammas after the loop, for k in range(1, len(df))
gamma_loop(scale0, df) ==
    [k \in 1 .. (Len(df) - 1) |-> gamma_term(gamma_scale(scale0, k), df[k + 1].v, k)]

\* the greater of two numbers >= 0, nan if one of them is nan
Greater(x, m) ==
    IF x.k = "nan" \/ m.k = "nan" THEN NaN
    ELSE IF FloatGt(x, m) THEN x ELSE m

RECURSIVE Greatest(_)
Greatest(a) == IF Len(a) = 1 THEN a[1] ELSE Greater(a[1], Greatest(Tail(a)))

\* ndarray_max as max(initial=0) would do: 0 for an empty array
ndarray_max_initial(gammas) ==
    IF Len(gammas) = 0 THEN Return(Rat(0, 1), <<>>)
    ELSE Return(Greatest(gammas), <<>>)

\* gammas.max(): numpy refuses to reduce an empty array
ndarray_max(gammas) ==
    IF Len(gammas) = 0 THEN Raise("ValueError", <<>>)
    ELSE Return(Greatest(gammas), <<>>)

\* the callables smale_gamma has invoked when it reaches line 177
gamma_evals(df, argv) == [k \in 1 .. Len(df) |-> Called(df[k], argv)]

\* gamma = gammas.max(); return gamma
gamma_return(gamma, evals) ==
    IF gamma.st = "raise" THEN Raise(gamma.exc, evals) ELSE Return(gamma.v, evals)

smale_gamma(f, x0, df, args) ==
    IF Len(df) - 1 < 0 THEN Raise("ValueError", <<>>)
    ELSE IF DivRaises(One, df[1])
    THEN Raise("ZeroDivisionError", <<Called(df[1], gamma_args(x0, args))>>)
    ELSE gamma_return(ndarray_max(gamma_loop(FloatDiv(One.v, df[1].v), df)),
                      gamma_evals(df, gamma_args(x0, args)))

(* ----------------------------- smale_alpha ----------------------------- *)

\* alpha_product with beta taken twice
alpha_product_beta_twice(beta, gamma) ==
    IF beta.st = "raise" THEN beta
    ELSE IF gamma.st = "raise" THEN Raise(gamma.exc, beta.evals \o gamma.evals)
    ELSE Return(FloatMul(beta.v, beta.v), beta.evals \o gamma.evals)

\* beta * gamma, the left operand evaluated first
alpha_product(beta, gamma) ==
    IF beta.st = "raise" THEN beta
    ELSE IF gamma.st = "raise" THEN Raise(gamma.exc, beta.evals \o gamma.evals)
    ELSE Return(FloatMul(beta.v, gamma.v), beta.evals \o gamma.evals)

smale_alpha(f, x0, df, args) ==
    alpha_product(smale_beta(f, x0, df, args), smale_gamma(f, x0, df, args))

(* ----------------------------- smale_newton ---------------------------- *)

\* the threshold 0.15767078078675478, in the unit of the values of f
AlphaStar == Rat(1, 1)

NotEnoughMsg == "not enough derivatives provided for smale"

NotApproximateMsg == "the estimate may not be an approximate solution to the function"

Warning(msg) == [message |-> msg, category |-> "RuntimeWarning"]

\* not_enough_derivatives with the test len(df) < 1
not_enough_derivatives_lt1(df) == Len(df) < 1

\* len(df) < 2
not_enough_derivatives(df) == Len(df) < 2

\* exceeds_threshold with >= for >
exceeds_threshold_ge(alpha) == ~ FloatGt(AlphaStar, alpha)

\* alpha > 0.15767078078675478
exceeds_threshold(alpha) == FloatGt(alpha, AlphaStar)

\* lines 89 to 92, given how smale_alpha ended
alpha_condition(alpha) ==
    IF alpha.st = "raise"
    THEN [warns |-> <<>>, evals |-> alpha.evals, exc |-> alpha.exc]
    ELSE [warns |-> IF exceeds_threshold(alpha.v)
                    THEN <<Warning(NotApproximateMsg)>> ELSE <<>>,
          evals |-> alpha.evals, exc |-> "none"]

\* The certification (lines 84 to 92): the warnings it issues, the callables it
\* invokes and the exception that escapes it ("none" if none does)
certify(f, x0, df, args) ==
    IF not_enough_derivatives(df)
    THEN [warns |-> <<Warning(NotEnoughMsg)>>, evals |-> <<>>, exc |-> "none"]
    ELSE alpha_condition(smale_alpha(f, x0, df, args))

\* fprime = df[0] if len(df) > 0 else None
newton_fprime(df) == IF Len(df) > 0 THEN df[1] ELSE None

\* the call newton(f, x0, fprime=fprime, args=args, tol=tol, maxiter=maxiter)
newton_call(f, x0, df, args, tol, maxiter) ==
    [func |-> f, x0 |-> x0, fprime |-> newton_fprime(df), args |-> args,
     tol |-> tol, maxiter |-> maxiter]

\* lines 95 to 97 after the certification `cert`, unless an exception escaped
\* it: the call `nc` of newton, which ends as `solved`
newton_iterate(cert, nc, solved) ==
    IF cert.exc # "none"
    THEN [st |-> "raise", v |-> NaN, exc |-> cert.exc, evals |-> cert.evals,
          warns |-> cert.warns, newton |-> <<>>]
    ELSE [st |-> solved.st, v |-> solved.v, exc |-> solved.exc,
          evals |-> cert.evals, warns |-> cert.warns, newton |-> <<nc>>]

\* smale_newton, with the way the external solver ends its run as `solved`:
\* the result, the warnings issued and the calls of newton made
smale_newton(f, x0, df, args, tol, maxiter, solved) ==
    newton_iterate(certify(f, x0, df, args),
                   newton_call(f, x0, df, args, tol, maxiter), solved)

(* ------------------------- the caller's session ------------------------ *)

\* the values f takes at the point, in units of the threshold
FValues == {-1, 0, 2}

\* the values the derivatives take at the point
DfValues == {-2, 0, 1}

\* the starting point and the extra arguments a caller passes: f(x) with
\* no extra argument, or f(x, a, b)
Points == {[x0 |-> 0, args |-> <<>>], [x0 |-> 10, args |-> <<1, 2>>]}

\* tol and maxiter: the defaults of line 45 and one other choice
Settings == {[tol |-> "1.48e-8", maxiter |-> 50], [tol |-> "1e-12", maxiter |-> 5]}

\* how a run of scipy.optimize.newton may end: a root estimate, or its
\* RuntimeError when it has not converged within maxiter steps
NewtonOutcomes ==
    {[st |-> "return", v |-> Rat(1, 1), exc |-> "none"],
     [st |-> "raise", v |-> NaN, exc |-> "RuntimeError"]}

\* what a caller holds: f, the point, the extra arguments and the
\* derivatives it could supply (it passes the first n of them as df)
Inputs ==
    {[f |-> Callable("f", 0, fty, Rat(fv, 1)), x0 |-> p.x0, args |-> p.args,
      derivs |-> [i \in 1 .. MaxDf |-> Callable("df", i - 1, dty, Rat(dv[i], 1))]] :
       fty \in Types, fv \in FValues, p \in Points,
       dty \in Types, dv \in [1 .. MaxDf -> DfValues]}

NoCall ==
    [fn |-> "none", df |-> <<>>, tol |-> "none", maxiter |-> 0,
     st |-> "none", v |-> NaN, exc |-> "none"]

VARIABLES
    inputs,       \* f, x0, args and the derivatives the caller holds
    call,         \* the last call: the function, its df, and how it ended
    evals,        \* the callables the last call invoked, with their arguments
    issued,       \* the warnings the last call issued
    newton,       \* the calls of scipy.optimize.newton the last call made
    solver,       \* how the external solver ended in the last call, if run
    diagnostics,  \* the warnings issued since the session began
    ncalls        \* the number of calls made

vars == <<inputs, call, evals, issued, newton, solver, diagnostics, ncalls>>

Init ==
    /\ inputs \in Inputs
    /\ call = NoCall
    /\ evals = <<>>
    /\ issued = <<>>
    /\ newton = <<>>
    /\ solver = <<>>
    /\ diagnostics = <<>>
    /\ ncalls = 0

\* the first n derivatives, passed as df
Df(n) == SubSeq(inputs.derivs, 1, n)

\* a call of one of the three estimators with the first n derivatives
Estimate(fn, n, res) ==
    /\ ncalls < MaxCalls
    /\ call' = [fn |-> fn, df |-> Df(n), tol |-> "none", maxiter |-> 0,
                st |-> res.st, v |-> res.v, exc |-> res.exc]
    /\ evals' = res.evals
    /\ issued' = <<>>
    /\ newton' = <<>>
    /\ solver' = <<>>
    /\ ncalls' = ncalls + 1
    /\ UNCHANGED <<inputs, diagnostics>>

CallSmaleBeta ==
    \E n \in 0 .. MaxDf :
        Estimate("smale_beta", n, smale_beta(inputs.f, inputs.x0, Df(n), inputs.args))

CallSmaleGamma ==
    \E n \in 0 .. MaxDf :
        Estimate("smale_gamma", n, smale_gamma(inputs.f, inputs.x0, Df(n), inputs.args))

CallSmaleAlpha ==
    \E n \in 0 .. MaxDf :
        Estimate("smale_alpha", n, smale_alpha(inputs.f, inputs.x0, Df(n), inputs.args))

\* the state after a call of smale_newton that ended as `res`
Finished(n, s, solved, res) ==
    /\ ncalls < MaxCalls
    /\ call' = [fn |-> "smale_newton", df |-> Df(n), tol |-> s.tol,
                maxiter |-> s.maxiter,
                st |-> res.st, v |-> res.v, exc |-> res.exc]
    /\ evals' = res.evals
    /\ issued' = res.warns
    /\ newton' = res.newton
    /\ solver' = IF res.newton = <<>> THEN <<>> ELSE <<solved>>
    /\ diagnostics' = diagnostics \o res.warns
    /\ ncalls' = ncalls + 1
    /\ UNCHANGED inputs

\* a call smale_newton(f, x0, df, args, tol, maxiter); `solved` is how the
\* external solver ends if the call reaches it
CallSmaleNewton ==
    \E n \in 0 .. MaxDf, s \in Settings, solved \in NewtonOutcomes :
        Finished(n, s, solved,
                 smale_newton(inputs.f, inputs.x0, Df(n), inputs.args,
                              s.tol, s.maxiter, solved))

Next == CallSmaleBeta \/ CallSmaleGamma \/ CallSmaleAlpha \/ CallSmaleNewton

Spec == Init /\ [][Next]_vars

(* ------------------------------ properties ---------------------------- *)

\* the last call was a call of fn
Was(fn) == call.fn = fn

\* df[0](x0, *args) of the last call is zero
ZeroDerivative == Len(call.df) >= 1 /\ IsZero(call.df[1].v)

Range(q) == {q[i] : i \in 1 .. Len(q)}

\* C1: every call of smale_newton invokes newton, whatever the certification
\* does: when a call of smale_newton has ended, it has called newton.
C1_NewtonAlwaysAttempted == Was("smale_newton") => Len(newton) = 1

\* C3: in any sequence of calls, every call of smale_newton with fewer than
\* two derivatives adds the warning 'not enough derivatives' to the warnings
\* issued so far, whatever x0 is and whatever was called before.
C3_NotEnoughAlwaysWarned ==
    [][(ncalls' # ncalls /\ call'.fn = "smale_newton" /\ Len(call'.df) < 2)
         => /\ diagnostics' = Append(diagnostics, Warning(NotEnoughMsg))
            /\ issued' = <<Warning(NotEnoughMsg)>>]_vars

\* a second call in a row that has one derivative only and warns again
C3_Witness ==
    /\ ncalls = 2
    /\ Was("smale_newton")
    /\ Len(call.df) = 1
    /\ diagnostics = <<Warning(NotEnoughMsg), Warning(NotEnoughMsg)>>

\* C4: smale_newton issues the warning 'may not be an approximate solution'
\* if and only if len(df) >= 2 and smale_alpha returns a value strictly
\* greater than the threshold; no call issues both warnings.
C4_ThresholdWarningIff ==
    Was("smale_newton") =>
        /\ (Warning(NotApproximateMsg) \in Range(issued))
             <=> /\ Len(call.df) >= 2
                 /\ smale_alpha(inputs.f, inputs.x0, call.df, inputs.args).st = "return"
                 /\ FloatGt(smale_alpha(inputs.f, inputs.x0, call.df, inputs.args).v,
                            AlphaStar)
        /\ (Warning(NotApproximateMsg) \in Range(issued)) => Len(call.df) >= 2
        /\ ~ ({Warning(NotApproximateMsg), Warning(NotEnoughMsg)} \subseteq Range(issued))

\* a call whose alpha equals the threshold and that does not warn, after a
\* call with one more derivative whose alpha exceeded it and that warned
C4_Witness ==
    /\ ncalls = 2
    /\ Was("smale_newton")
    /\ Len(call.df) >= 2
    /\ smale_alpha(inputs.f, inputs.x0, call.df, inputs.args).st = "return"
    /\ SameNumber(smale_alpha(inputs.f, inputs.x0, call.df, inputs.args).v, AlphaStar)
    /\ issued = <<>>
    /\ diagnostics = <<Warning(NotApproximateMsg)>>

\* C5: the outcome of smale_newton is the outcome of newton, called once with
\* the caller's f, x0, args, tol and maxiter and with fprime = df[0], or None
\* when df is empty.
C5_OutcomeIsNewtons ==
    Was("smale_newton") =>
        /\ Len(newton) = 1
        /\ newton[1] = [func |-> inputs.f, x0 |-> inputs.x0,
                        fprime |-> IF Len(call.df) >= 1 THEN call.df[1] ELSE None,
                        args |-> inputs.args, tol |-> call.tol,
                        maxiter |-> call.maxiter]
        /\ Len(solver) = 1
        /\ call.st = solver[1].st /\ call.v = solver[1].v /\ call.exc = solver[1].exc

RECURSIVE Factorial(_)
Factorial(k) == IF k = 0 THEN 1 ELSE k * Factorial(k - 1)

\* | df[k-1] / (k! * df[0]) | ^ (1/(k-1)), the orders k counted from 1
ClosedTerm(df, k) ==
    FloatRoot(numpy_abs(FloatDiv(df[k].v, FloatMul(Rat(Factorial(k), 1), df[1].v))),
              k - 1)

\* C6: with len(df) >= 2, smale_gamma returns the maximum over all the
\* orders k from 2 to len(df) of | df[k-1] / (k! * df[0]) | ^ (1/(k-1)): it
\* returns whenever df[0] is nonzero at the point, and what it returns is one
\* of the terms and no term is greater (in float arithmetic: nan as soon as a
\* term is nan, which takes df[0] zero).
C6_GammaIsMaxOfTerms ==
    (Was("smale_gamma") /\ Len(call.df) >= 2) =>
        /\ ~ ZeroDerivative => call.st = "return"
        /\ call.st = "return" =>
             IF \E k \in 2 .. Len(call.df) : ClosedTerm(call.df, k).k = "nan"
             THEN call.v.k = "nan"
             ELSE /\ \E k \in 2 .. Len(call.df) :
                        SameNumber(call.v, ClosedTerm(call.df, k))
                  /\ \A k \in 2 .. Len(call.df) :
                        ~ FloatGt(ClosedTerm(call.df, k), call.v)

\* gamma is the term of the last of three derivatives, greater than the
\* term of the second derivative
C6_Witness ==
    /\ Was("smale_gamma")
    /\ Len(call.df) = 3
    /\ ~ ZeroDerivative
    /\ call.st = "return"
    /\ SameNumber(call.v, ClosedTerm(call.df, 3))
    /\ FloatGt(call.v, ClosedTerm(call.df, 2))
    /\ FloatGt(ClosedTerm(call.df, 2), Rat(0, 1))

\* C7: with len(df) >= 2, smale_alpha is smale_beta * smale_gamma: it returns
\* whenever df[0] is nonzero at the point, it raises only if one of the two
\* raises, and what it returns is the product of what the two return; and
\* smale_beta returns | f / df[0] |.
C7_AlphaIsBetaTimesGamma ==
    /\ (Was("smale_alpha") /\ Len(call.df) >= 2) =>
          /\ ~ ZeroDerivative => call.st = "return"
          /\ call.st = "raise" =>
               \/ smale_beta(inputs.f, inputs.x0, call.df, inputs.args).st = "raise"
               \/ smale_gamma(inputs.f, inputs.x0, call.df, inputs.args).st = "raise"
          /\ call.st = "return" =>
               /\ smale_beta(inputs.f, inputs.x0, call.df, inputs.args).st = "return"
               /\ smale_gamma(inputs.f, inputs.x0, call.df, inputs.args).st = "return"
               /\ SameNumber(call.v,
                    FloatMul(smale_beta(inputs.f, inputs.x0, call.df, inputs.args).v,
                             smale_gamma(inputs.f, inputs.x0, call.df, inputs.args).v))
    /\ (Was("smale_beta") /\ Len(call.df) >= 1) =>
          /\ ~ ZeroDerivative => call.st = "return"
          /\ call.st = "return" =>
               SameNumber(call.v, numpy_abs(FloatDiv(inputs.f.v, call.df[1].v)))

\* an alpha that is neither beta nor gamma, with a root in gamma
C7_Witness ==
    /\ Was("smale_alpha")
    /\ Len(call.df) >= 2
    /\ call.st = "return"
    /\ call.v.r = 2
    /\ inputs.f.v.n < 0
    /\ ~ SameNumber(call.v, smale_beta(inputs.f, inputs.x0, call.df, inputs.args).v)
    /\ ~ SameNumber(call.v, smale_gamma(inputs.f, inputs.x0, call.df, inputs.args).v)

\* C8: smale_gamma and smale_alpha called with fewer than two derivatives
\* raise and return nothing.
C8_TooFewDerivativesRaise ==
    ((Was("smale_gamma") \/ Was("smale_alpha")) /\ Len(call.df) < 2) =>
        /\ call.st = "raise"
        /\ call.exc \in {"ValueError", "IndexError", "ZeroDivisionError"}

\* smale_gamma with one derivative, nonzero: it has evaluated df[0] and
\* fails in the reduction of the empty array
C8_Witness ==
    /\ Was("smale_gamma")
    /\ Len(call.df) = 1
    /\ ~ ZeroDerivative
    /\ Len(evals) = 1
    /\ call.st = "raise"
    /\ call.exc = "ValueError"

\* C9: when df[0](x0, *args) is zero, smale_beta and smale_gamma (with at
\* least two derivatives) raise no error: the division yields inf or nan, for
\* every numeric type.
C9_ZeroDerivativeNeverRaises ==
    /\ (Was("smale_beta") /\ ZeroDerivative) =>
          call.st = "return" /\ call.v.k \in {"inf", "nan"}
    /\ (Was("smale_gamma") /\ Len(call.df) >= 2 /\ ZeroDerivative) =>
          call.st = "return" /\ call.v.k \in {"inf", "nan"}

\* C10: f and the entries of df are invoked with (x0, *args) only, and newton
\* is handed the same x0 and args.
C10_ArgsThreaded ==
    /\ \A i \in 1 .. Len(evals) : evals[i].argv = <<inputs.x0>> \o inputs.args
    /\ \A i \in 1 .. Len(newton) :
          newton[i].args = inputs.args /\ newton[i].x0 = inputs.x0

\* a certified call with two extra arguments: f and three derivatives were
\* evaluated and newton was called
C10_Witness ==
    /\ Was("smale_newton")
    /\ inputs.args = <<1, 2>>
    /\ Len(call.df) = 3
    /\ {[fn |-> e.fn, i |-> e.i] : e \in Range(evals)}
         = {[fn |-> "f", i |-> 0], [fn |-> "df", i |-> 0],
            [fn |-> "df", i |-> 1], [fn |-> "df", i |-> 2]}
    /\ Len(newton) = 1
    /\ newton[1].args = <<1, 2>>

==========================================================================
